---- MODULE Spec2Model ----
(***************************************************************************)
(* Model of the daemon supervisor of soundctld (src/src/daemon.py).        *)
(*                                                                         *)
(* Every invocation of the command line is an operating-system process    *)
(* that executes main() and one of Daemon.start / stop / restart.  The     *)
(* processes share one thing, the pidfile.  A process is a row of `proc`,  *)
(* its program counter `pc` names the statement it executes next, and one  *)
(* action of the model is one statement (or one block of statements that   *)
(* touch nothing shared) of one process.                                   *)
(*                                                                         *)
(* Environment: the kernel hands out process identifiers in increasing     *)
(* order and does not reuse one within a behaviour; an exited process is   *)
(* reaped at once (its parent has exited, init reaps it), so that a signal *)
(* sent to it fails with ESRCH; operations on the pidfile never fail for   *)
(* lack of permission.                                                     *)
(***************************************************************************)
EXTENDS Integers, FiniteSets, Sequences, TLC

\* ---------------------------------------------------------------- bounds

\* Processes a behaviour may create (invokers and their forked children).
MaxPid == 8

\* Commands a behaviour may issue.
MaxCmds == 4

\* Under Spec, where commands overlap: the commands that may be in
\* progress at once, the commands a behaviour may issue and the processes
\* it may create.
MaxActive == 2

ConcCmds == 3

ConcPids == 6

\* ------------------------------------------------------- values of the code

\* Python's None, the value of `pid` after `except IOError`.
None == -3

\* State of the pidfile: it does not exist (open() raises IOError) ...
Absent == -2

\* ... or it exists and holds no digits yet: open(pidfile, 'w+') has
\* truncated it and the buffered write has not reached it.
Empty == -1

\* signal.SIGTERM
SIGTERM == 15

\* Exit status of a process that has not exited.
StillRunning == -1

Pids == 1 .. MaxPid

\* Users that invoke commands; a signal is delivered only between
\* processes of the same user.
Users == {"alice", "bob"}

\* Commands of main().
Commands == {"start", "stop", "restart", "test"}

\* Arguments, besides self, that the worker callback takes:
\* `def run(self, args)` of SoundCtlDaemon.
RunArity == 1

\* Calling the callback with n arguments raises no TypeError.
CallAccepted(n) == n = RunArity

\* The default pidfile, '/tmp/soundctld.pid', is an absolute path: the
\* file lives in "/tmp" whatever the working directory of the process.
\* A relative path given with --pid-file names a file of the working
\* directory of the process that opens it.
Dirs == {"/tmp", "/", "/home"}

\* What a worker callback may have arranged for SIGTERM: nothing (the
\* process dies at once, no exit handler runs), a handler that leaves
\* through sys.exit (exit handlers run), or ignoring it.
Dispositions == {"default", "exit", "ignore"}

VARIABLES
    proc,      \* the process table: pid -> process record
    fs,        \* directory -> state of the pidfile of that directory
    relative   \* whether the configured pidfile path is relative

vars == <<proc, fs, relative>>

\* ------------------------------------------------------------ process rows

Unborn ==
    [pc |-> "unborn", cmd |-> "none", role |-> "none", parent |-> 0,
     uid |-> "none", target |-> None, status |-> StillRunning, err |-> "none",
     sent |-> FALSE, pending |-> FALSE, disp |-> "default", atexit |-> FALSE,
     ran |-> FALSE, sid |-> 0, cwd |-> "/home"]

Born(p) == proc[p].pc # "unborn"

Exited(p) == proc[p].pc = "exited"

\* The process exists for the kernel: os.kill finds it.
Alive(p) == Born(p) /\ ~Exited(p)

\* The next process identifier the kernel hands out.
NextPid == Cardinality({p \in Pids : Born(p)}) + 1

\* A command is in progress in p: p is neither gone nor a worker that
\* has reached its callback.
Active(p) == Alive(p) /\ proc[p].pc # "running"

\* Process identifiers p may still need for its forks.
Need(p) ==
    IF ~Alive(p) THEN 0
    ELSE IF proc[p].pc \in {"stop_read", "stop_kill", "stop_check", "stop_remove"}
         THEN (IF proc[p].cmd = "restart" THEN 2 ELSE 0)
    ELSE IF proc[p].pc \in {"start_read", "fork1"} THEN 2
    ELSE IF proc[p].pc = "fork2" THEN 1
    ELSE 0

RECURSIVE SumNeed(_)
SumNeed(S) ==
    IF S = {} THEN 0
    ELSE LET p == CHOOSE x \in S : TRUE IN Need(p) + SumNeed(S \ {p})

Cost(cmd) == IF cmd \in {"stop", "test"} THEN 1 ELSE 3

\* ------------------------------------------------------------- the pidfile

\* The file self.pidfile names for process p.
Resolve(p) == IF relative THEN proc[p].cwd ELSE "/tmp"

PidFile(p) == fs[Resolve(p)]

\* `int(pf.read().strip())` raises ValueError, which start and stop do not
\* catch, when the file holds no digits.
ParseFails(f) == f = Empty

\* A read that never finds the file.
ReadPid_Missing(f) == None

\* The value of `pid` after the try block: None after IOError, else the
\* number the file holds.
ReadPid(f) == IF f = Absent THEN None ELSE f

\* Python's truth value of `pid` in `if pid:` and `if not pid:`.
Truthy(pid) == pid # None /\ pid # 0

\* What os.kill(t, SIGTERM) called by process p does: "ok" when the signal
\* is delivered, else the error it raises.
KillResult(p, t) ==
    IF ~(t \in Pids /\ Alive(t)) THEN "ESRCH"
    ELSE IF proc[t].uid # proc[p].uid THEN "EPERM"
    ELSE "ok"

\* Mutant: every OSError of os.kill is taken for "no such process".
NoSuchProcess_Any(e) == TRUE

\* `str(err.args).find("No such process") > 0`
NoSuchProcess(e) == e = "ESRCH"

\* Mutant: the pidfile is never removed.
Remove_Noop(p) == fs

\* os.remove(self.pidfile) as process p calls it, the file existing.
Remove(p) == [fs EXCEPT ![Resolve(p)] = Absent]

\* ------------------------------------------------------ leaving a process

\* sys.exit(st), or the end of main(), or an uncaught exception (st = 1),
\* with `e` what the process wrote to its error stream.
Exit(r, st, e) ==
    [Unborn EXCEPT !.pc = "exited", !.cmd = r.cmd, !.role = r.role,
                   !.parent = r.parent, !.status = st, !.err = e]

\* Exit status of a process a signal killed.
KilledBy(sig) == 128 + sig

\* Mutant: the handler reports the failed fork and forgets to exit, so the
\* process goes on with the statements meant for the child.
OnForkError_FallThrough(r, e) ==
    [r EXCEPT !.err = e,
              !.pc = IF r.pc = "fork1" THEN "fork2" ELSE "open_pidfile"]

\* `except OSError` around a fork: message, then sys.exit(1).
OnForkError(r, e) == Exit(r, 1, e)

\* A parent that goes on into the child's code instead of exiting.
OnForkParent_Continue(r) == [r EXCEPT !.pc = "fork2"]

\* after the fork, in the parent: `if pid > 0: sys.exit(0)`
OnForkParent(r) == [r EXCEPT !.pc = "parent_exit"]

\* Mutant: a stop that finds no pidfile fails.
StopReturns_Strict(r) ==
    IF r.err = "not_running" THEN Exit(r, 1, r.err)
    ELSE IF r.cmd = "restart" THEN [r EXCEPT !.pc = "start_read"]
    ELSE Exit(r, 0, r.err)

\* A restart that is only a stop.
StopReturns_NoStart(r) == Exit(r, 0, r.err)

\* stop() returns normally: main() ends (exit status 0), or restart()
\* goes on to start().
StopReturns(r) ==
    IF r.cmd = "restart" THEN [r EXCEPT !.pc = "start_read"]
    ELSE Exit(r, 0, r.err)

\* The row of a process forked by p: a copy of what p is, at the
\* statement after the fork.
Child(p, role, pc) ==
    [proc[p] EXCEPT !.pc = pc, !.role = role, !.parent = p]

\* Commands issued so far.
Issued == Cardinality({p \in Pids : proc[p].role = "invoker"})

\* ----------------------------------------------------------------- actions

Init ==
    /\ proc = [p \in Pids |-> Unborn]
    /\ fs = [d \in Dirs |-> Absent]
    /\ relative = FALSE

\* A user runs the command line: main() parses it and calls the method of
\* the command.
Launch(cmd, u, cmds, pids) ==
    /\ Issued < cmds
    /\ NextPid <= MaxPid
    /\ (NextPid - 1) + SumNeed(Pids) + Cost(cmd) <= pids
    /\ proc' = [proc EXCEPT ![NextPid] =
                   [Unborn EXCEPT !.pc = IF cmd = "start" THEN "start_read"
                                          ELSE IF cmd = "test" THEN "test_run"
                                          ELSE "stop_read",
                                  !.cmd = cmd, !.role = "invoker", !.uid = u]]
    /\ UNCHANGED <<fs, relative>>

\* Commands from several terminals: up to MaxActive at once.
Invoke ==
    /\ Cardinality({q \in Pids : Active(q)}) < MaxActive
    /\ \E cmd \in Commands, u \in Users : Launch(cmd, u, ConcCmds, ConcPids)

\* Commands issued one after another: the next only when the previous one
\* has completed, its detached process having reached the callback.
Quiescent == \A q \in Pids : ~Active(q)

SeqInvoke ==
    /\ Quiescent
    /\ \E cmd \in Commands, u \in Users : Launch(cmd, u, MaxCmds, MaxPid)

\* Mutant: start refuses only when the recorded process is alive.
AlreadyRunning_IfAlive(f) == Truthy(ReadPid(f)) /\ f \in Pids /\ Alive(f)

\* Mutant: start does not look at the pidfile.
AlreadyRunning_Never(f) == FALSE

\* start(): read the pidfile, fail when it names a process.
AlreadyRunning(f) == Truthy(ReadPid(f))

StartRead(p) ==
    /\ proc[p].pc = "start_read"
    /\ proc' = [proc EXCEPT ![p] =
          IF ParseFails(PidFile(p)) THEN Exit(@, 1, "ValueError")
          ELSE IF AlreadyRunning(PidFile(p)) THEN Exit(@, 1, "already_running")
          ELSE [@ EXCEPT !.pc = "fork1"]]
    /\ UNCHANGED <<fs, relative>>

\* daemonize(): the first fork, which fails or creates the first child.
Fork1(p) ==
    /\ proc[p].pc = "fork1"
    /\ \/ proc' = [proc EXCEPT ![p] = OnForkError(@, "fork1_failed")]
       \/ /\ NextPid <= MaxPid
          /\ proc' = [proc EXCEPT ![p] = OnForkParent(@),
                                  ![NextPid] = Child(p, "child1", "fork2")]
    /\ UNCHANGED <<fs, relative>>

\* sys.exit(0) of the parent of a fork.
ParentExit(p) ==
    /\ proc[p].pc = "parent_exit"
    /\ proc' = [proc EXCEPT ![p] = Exit(@, 0, @.err)]
    /\ UNCHANGED <<fs, relative>>

\* A first child that starts no session of its own.
Decoupled_NoSetsid(r, p) == [r EXCEPT !.cwd = "/"]

\* os.chdir('/'); os.setsid(); os.umask(0) in the first child.
Decoupled(r, p) == [r EXCEPT !.cwd = "/", !.sid = p]

\* daemonize(): the first child leaves the environment of its parent, then
\* the second fork, which fails or creates the second child.
Fork2(p) ==
    /\ proc[p].pc = "fork2"
    /\ \/ proc' = [proc EXCEPT ![p] = OnForkError(Decoupled(@, p), "fork2_failed")]
       \/ /\ NextPid <= MaxPid
          /\ proc' = [proc EXCEPT
                ![p] = OnForkParent(Decoupled(@, p)),
                ![NextPid] = [Decoupled(proc[p], p) EXCEPT
                                 !.pc = "open_pidfile", !.role = "child2",
                                 !.parent = p]]
    /\ UNCHANGED <<fs, relative>>

\* A daemonize() that registers no exit handler.
OpenPidfile_NoRegister(p) ==
    /\ proc[p].pc = "open_pidfile"
    /\ fs' = [fs EXCEPT ![Resolve(p)] = Empty]
    /\ proc' = [proc EXCEPT ![p].pc = "write_pidfile"]
    /\ UNCHANGED relative

\* The second child redirects its standard streams to the null device,
\* registers delpid to run at exit, and open(self.pidfile, 'w+') creates
\* or truncates the file.
OpenPidfile(p) ==
    /\ proc[p].pc = "open_pidfile"
    /\ fs' = [fs EXCEPT ![Resolve(p)] = Empty]
    /\ proc' = [proc EXCEPT ![p] = [@ EXCEPT !.pc = "write_pidfile", !.atexit = TRUE]]
    /\ UNCHANGED relative

\* Mutant: the identifier of the parent is recorded (os.getppid()).
PidToWrite_Parent(p) == proc[p].parent

\* A writer that leaves alone a record written since it opened the file.
PidToWrite_KeepFirst(p) == IF PidFile(p) \in Pids THEN PidFile(p) ELSE p

\* `pid = str(os.getpid())`, read back as the number it spells.
PidToWrite(p) == p

\* f.write(pid + '\n') reaches the file when it is closed.
WritePidfile(p) ==
    /\ proc[p].pc = "write_pidfile"
    /\ fs' = [fs EXCEPT ![Resolve(p)] = PidToWrite(p)]
    /\ proc' = [proc EXCEPT ![p].pc = "run"]
    /\ UNCHANGED relative

\* An exit that runs no registered handler (os._exit).
NormalExit_NoCleanup(p, st, e) ==
    /\ proc' = [proc EXCEPT ![p] = Exit(@, st, e)]
    /\ UNCHANGED <<fs, relative>>

\* The interpreter leaves through its normal exit path with status st: the
\* registered delpid() removes the pidfile (an error of os.remove there is
\* printed and the exit goes on).
NormalExit(p, st, e) ==
    /\ fs' = IF proc[p].atexit /\ PidFile(p) # Absent THEN Remove(p) ELSE fs
    /\ proc' = [proc EXCEPT ![p] = Exit(@, st, e)]
    /\ UNCHANGED relative

\* start() calls self.run(args): the worker callback begins, and arranges
\* what SIGTERM does to it.  A callback that does not take the argument
\* raises TypeError, which nothing catches.
Run(p) ==
    /\ proc[p].pc = "run"
    /\ IF CallAccepted(1)
       THEN /\ \E d \in Dispositions :
                  proc' = [proc EXCEPT ![p] =
                             [@ EXCEPT !.pc = "running", !.ran = TRUE, !.disp = d]]
            /\ UNCHANGED <<fs, relative>>
       ELSE NormalExit(p, 1, "TypeError")

\* main(), command test: daemon.run() is called in the invoking process,
\* with no argument.
TestRun(p) ==
    /\ proc[p].pc = "test_run"
    /\ proc' = [proc EXCEPT ![p] =
          IF CallAccepted(0) THEN [@ EXCEPT !.pc = "foreground", !.ran = TRUE]
          ELSE Exit(@, 1, "TypeError")]
    /\ UNCHANGED <<fs, relative>>

\* The worker callback returns.
WorkerReturn(p) ==
    /\ proc[p].pc \in {"running", "foreground"}
    /\ NormalExit(p, 0, proc[p].err)

\* The worker dies without running its exit handlers (SIGKILL, os._exit,
\* a crash of the interpreter).
WorkerCrash(p) ==
    /\ proc[p].pc = "running"
    /\ proc' = [proc EXCEPT ![p] = Exit(@, KilledBy(9), @.err)]
    /\ UNCHANGED <<fs, relative>>

\* A pending SIGTERM reaches process p.
HandleSigterm(p) ==
    /\ Alive(p)
    /\ proc[p].pending
    /\ IF proc[p].disp = "ignore"
       THEN /\ proc' = [proc EXCEPT ![p].pending = FALSE]
            /\ UNCHANGED <<fs, relative>>
       ELSE IF proc[p].disp = "exit"
       THEN NormalExit(p, 0, proc[p].err)
       ELSE /\ proc' = [proc EXCEPT ![p] = Exit(@, KilledBy(SIGTERM), @.err)]
            /\ UNCHANGED <<fs, relative>>

\* stop(): read the pidfile, return when it names no process.
StopRead(p) ==
    /\ proc[p].pc = "stop_read"
    /\ proc' = [proc EXCEPT ![p] =
          IF ParseFails(PidFile(p)) THEN Exit(@, 1, "ValueError")
          ELSE IF ~Truthy(ReadPid(PidFile(p)))
               THEN StopReturns([@ EXCEPT !.err = "not_running"])
          ELSE [@ EXCEPT !.pc = "stop_kill", !.target = ReadPid(PidFile(p))]]
    /\ UNCHANGED <<fs, relative>>

\* Mutant: when the process is gone stop returns and leaves the pidfile.
OnKillError_NoCleanup(r, e) ==
    IF NoSuchProcess(e) THEN StopReturns(r)
    ELSE Exit(r, 1, e)

\* Mutant: the test for "no such process" never matches.
OnKillError_AllFatal(r, e) == Exit(r, 1, e)

\* A stop that goes on to the cleanup after any OSError of os.kill.
OnKillError_CleanupAnyway(r, e) == [r EXCEPT !.pc = "stop_check"]

\* What stop() does with the OSError e of os.kill.
OnKillError(r, e) ==
    IF NoSuchProcess(e) THEN [r EXCEPT !.pc = "stop_check"]
    ELSE Exit(r, 1, e)

\* Mutant: stop signals once and does not wait for the process to go.
OnKillDelivered_NoWait(r) == [r EXCEPT !.sent = TRUE, !.pc = "stop_check"]

\* A stop that gives up when a second signal is still deliverable.
OnKillDelivered_Timeout(r) ==
    IF r.sent THEN Exit(r, 1, "timeout") ELSE [r EXCEPT !.sent = TRUE]

\* os.kill raised nothing: sleep, and stay in the loop.
OnKillDelivered(r) == [r EXCEPT !.sent = TRUE]

\* One turn of `while 1: os.kill(pid, SIGTERM); time.sleep(0.1)`.
StopKill(p) ==
    /\ proc[p].pc = "stop_kill"
    /\ LET t == proc[p].target
           e == KillResult(p, t)
       IN  proc' = IF e = "ok"
                   THEN [proc EXCEPT ![t].pending = TRUE, ![p] = OnKillDelivered(@)]
                   ELSE [proc EXCEPT ![p] = OnKillError(@, e)]
    /\ UNCHANGED <<fs, relative>>

\* `if os.path.exists(self.pidfile):`
StopCheck(p) ==
    /\ proc[p].pc = "stop_check"
    /\ proc' = [proc EXCEPT ![p] =
          IF PidFile(p) # Absent THEN [@ EXCEPT !.pc = "stop_remove"]
          ELSE StopReturns(@)]
    /\ UNCHANGED <<fs, relative>>

\* `os.remove(self.pidfile)`: FileNotFoundError, raised inside the except
\* block, is not caught.
StopRemove(p) ==
    /\ proc[p].pc = "stop_remove"
    /\ IF PidFile(p) # Absent
       THEN /\ fs' = Remove(p)
            /\ proc' = [proc EXCEPT ![p] = StopReturns(@)]
       ELSE /\ fs' = fs
            /\ proc' = [proc EXCEPT ![p] = Exit(@, 1, "ENOENT")]
    /\ UNCHANGED relative

\* The statements of the supervisor that process p may execute.
Step(p) ==
    \/ StartRead(p)
    \/ Fork1(p)
    \/ ParentExit(p)
    \/ Fork2(p)
    \/ OpenPidfile(p)
    \/ WritePidfile(p)
    \/ Run(p)
    \/ TestRun(p)
    \/ StopRead(p)
    \/ StopKill(p)
    \/ StopCheck(p)
    \/ StopRemove(p)

\* What happens to process p from outside the supervisor.
Event(p) ==
    \/ HandleSigterm(p)
    \/ WorkerReturn(p)
    \/ WorkerCrash(p)

Next ==
    \/ Invoke
    \/ \E p \in Pids : Step(p)
    \/ \E p \in Pids : Event(p)

SeqNext ==
    \/ SeqInvoke
    \/ \E p \in Pids : Step(p)
    \/ \E p \in Pids : Event(p)

\* Any interleaving of concurrent invocations.
Spec == Init /\ [][Next]_vars

\* Commands issued one after another.
SeqSpec == Init /\ [][SeqNext]_vars

\* The scheduler does not stop while some process can execute a statement
\* or has a signal pending.
Progress == \E p \in Pids : Step(p) \/ HandleSigterm(p)

Fairness == WF_vars(Progress)

FairSeqSpec == SeqSpec /\ Fairness

\* A number that is the pid of no process.
ForeignPid == MaxPid + 1

\* What a pidfile left by something else than this program may hold when
\* the first command runs: nothing that parses, zero, or a foreign number.
PidfileContents == {Absent, Empty, 0, ForeignPid}

AnyInit ==
    /\ proc = [p \in Pids |-> Unborn]
    /\ \E c \in PidfileContents :
          fs = [d \in Dirs |-> IF d = "/tmp" THEN c ELSE Absent]
    /\ relative = FALSE

\* Commands issued one after another, starting from any such pidfile.
AnyFileSpec == AnyInit /\ [][SeqNext]_vars

\* The pidfile path is the absolute default, or a relative one given with
\* --pid-file.
PathInit ==
    /\ proc = [p \in Pids |-> Unborn]
    /\ fs = [d \in Dirs |-> Absent]
    /\ relative \in BOOLEAN

\* Commands issued one after another, with either kind of path.
AnyPathSpec == PathInit /\ [][SeqNext]_vars

\* ---------------------------------------------------------- the contract

\* The pidfile of the default configuration.
ThePidfile == fs["/tmp"]

\* Process p executes a statement in this step.
Moves(p) == proc'[p] # proc[p]

\* No process is created in this step.
NoFork == \A q \in Pids : ~Born(q) => proc'[q] = proc[q]

\* In this step nobody's worker callback starts.
NoCallback == \A q \in Pids : proc'[q].ran => proc[q].ran

\* In this step no signal is sent.
NoSignal == \A q \in Pids : proc'[q].pending => proc[q].pending

\* The detached workers.
Workers == {w \in Pids : proc[w].role = "child2"}

\* The processes the user ran, one per command; their identifiers give the
\* order of the commands.
Invokers == {p \in Pids : proc[p].role = "invoker"}

\* The process of the command issued last.  With commands issued one after
\* another it is the only command that can be in progress, and it stays the
\* latest until it has completed.
Latest == CHOOSE p \in Invokers : \A r \in Invokers : r <= p

\* The latest command is `cmd` and its process is at statement `pc`.
LatestAt(cmd, pc) ==
    /\ Invokers # {}
    /\ proc[Latest].cmd = cmd
    /\ proc[Latest].pc = pc

\* The latest command is `cmd` and its process has exited with status st.
LatestDone(cmd, st) ==
    /\ LatestAt(cmd, "exited")
    /\ proc[Latest].status = st

\* The process the user ran for the command that p belongs to.
Invoker(p) ==
    IF proc[p].role = "invoker" THEN p
    ELSE IF proc[p].role = "child1" THEN proc[p].parent
    ELSE proc[proc[p].parent].parent

\* C1: a start that finds a pidfile, whether or not the process it names is
\* alive, exits with a non-zero status in that very step, creates no process,
\* starts no callback and leaves the pidfile as it is; as it has exited, it
\* has no child then or later.
C1_StartRefusesExistingPidfile ==
    /\ [][\A p \in Pids :
            (proc[p].pc = "start_read" /\ PidFile(p) # Absent /\ Moves(p))
            => /\ proc'[p].pc = "exited"
               /\ proc'[p].status # 0
               /\ fs' = fs
               /\ NoFork
               /\ NoCallback]_vars
    /\ [](\A p, q \in Pids :
            proc[p].err \in {"already_running", "ValueError"}
            => /\ Exited(p)
               /\ proc[q].parent # p)

C1_Witness ==
    \E p \in Pids, w \in Workers :
        /\ Exited(p)
        /\ proc[p].cmd = "start"
        /\ proc[p].err = "already_running"
        /\ proc[p].status = 1
        /\ ThePidfile = w
        /\ proc[w].pc = "running"

\* A fork of the command that process p was run for has failed.
ForkFailed(p) ==
    \/ proc[p].err = "fork1_failed"
    \/ \E c \in Pids : proc[c].parent = p /\ proc[c].err = "fork2_failed"

\* Process c is the second-fork descendant of p, alive, recorded in the
\* pidfile and running the worker callback.
Detached(p, c) ==
    /\ proc[c].role = "child2"
    /\ Invoker(c) = p
    /\ c # p
    /\ proc[c].pc = "running"
    /\ proc[c].ran
    /\ PidFile(c) = c

\* C2: a start that found no pidfile and whose forks both succeed leads to
\* a state where the pidfile records a live process, not the invoking one but
\* its second-fork descendant, and that process runs the worker callback;
\* nothing but a second-fork descendant is ever recorded or runs the callback.
\* (Stated of the latest command: a behaviour may issue no further one.)
C2_StartDetaches ==
    /\ (Invokers # {} /\ proc[Latest].pc = "fork1")
       ~> (/\ Invokers # {}
           /\ \/ ForkFailed(Latest)
              \/ \E c \in Pids : Detached(Latest, c))
    /\ [](\A q \in Pids :
            (proc[q].ran \/ \E d \in Dirs : fs[d] = q)
            => proc[q].role = "child2")

C2_Witness ==
    \E p, c \in Pids :
        /\ Detached(p, c)
        /\ proc[p].cmd = "start"
        /\ Exited(p)
        /\ proc[p].status = 0

\* Process w leaves when SIGTERM reaches it, and s may signal it.
ExitsOnSigterm(s, w) ==
    /\ w \in Workers
    /\ Alive(w)
    /\ proc[w].disp # "ignore"
    /\ proc[w].uid = proc[s].uid

\* C3: a stop that finds the pidfile naming a live process which its signal
\* reaches (both belong to one user) and which exits on it leads to a state
\* where stop has returned with status 0, no detached process exists any
\* more and the pidfile is removed.
\* (Stated of the latest command: a behaviour may issue no further one.)
C3_StopTerminates ==
    (/\ LatestAt("stop", "stop_read")
     /\ ExitsOnSigterm(Latest, PidFile(Latest)))
    ~> (/\ LatestDone("stop", 0)
        /\ \A w \in Workers : ~Alive(w)
        /\ ThePidfile = Absent)

C3_Witness ==
    \E s \in Invokers, w \in Workers :
        /\ proc[s].cmd = "stop"
        /\ Exited(s)
        /\ proc[s].status = 0
        /\ proc[s].err = "none"
        /\ w < s
        /\ proc[w].status \in {0, KilledBy(SIGTERM)}
        /\ ThePidfile = Absent

\* C4: a stop that finds no pidfile sends no signal, ends with status 0 in
\* that very step and leaves the pidfile absent (the stop step of a restart
\* goes on to start instead of ending).
C4_StopWithoutPidfile ==
    [][\A p \in Pids :
          (proc[p].pc = "stop_read" /\ PidFile(p) = Absent /\ Moves(p))
          => /\ fs' = fs
             /\ NoSignal
             /\ NoFork
             /\ \A q \in Pids \ {p} : proc'[q] = proc[q]
             /\ IF proc[p].cmd = "stop"
                THEN proc'[p].pc = "exited" /\ proc'[p].status = 0
                ELSE proc'[p].pc = "start_read" /\ ~proc'[p].sent]_vars

C4_Witness ==
    \E p \in Pids :
        /\ Exited(p)
        /\ proc[p].cmd = "stop"
        /\ proc[p].err = "not_running"
        /\ proc[p].status = 0
        /\ ThePidfile = Absent

\* C5: once the detached process of a restart has written its record, the
\* process P that the stop step of the restart read from the pidfile no
\* longer exists and the pidfile does not record P: right after the write it
\* records the new process, which is not P.
C5_RestartReplaces ==
    \A c \in Workers :
        (/\ proc[c].cmd = "restart"
         /\ proc[c].target # None
         /\ proc[c].pc \in {"run", "running"})
        => /\ ~Alive(proc[c].target)
           /\ PidFile(c) # proc[c].target
           /\ c # proc[c].target
           /\ proc[c].pc = "run" => PidFile(c) = c

C5_Witness ==
    \E c \in Workers :
        /\ proc[c].cmd = "restart"
        /\ proc[c].pc = "running"
        /\ proc[c].sent
        /\ proc[c].target \in Workers
        /\ proc[proc[c].target].status = KilledBy(SIGTERM)
        /\ PidFile(c) = c
        /\ proc[Invoker(c)].status = 0

\* q is the second of two stop commands run in succession, the first of
\* which has returned.
AfterStop(q) ==
    /\ proc[q].role = "invoker"
    /\ proc[q].cmd = "stop"
    /\ \E p \in Invokers :
          /\ p < q
          /\ \A r \in Invokers : r < q => r <= p
          /\ proc[p].cmd = "stop"
          /\ Exited(p)
          /\ proc[p].status = 0

\* C6: a stop run after a stop that has returned finds no pidfile and no
\* detached process alive; it ends with status 0 in its first step, and that
\* step changes neither the pidfile nor any other process.
C6_StopIdempotent ==
    /\ [][\A q \in Pids :
            (proc[q].pc = "stop_read" /\ AfterStop(q) /\ Moves(q))
            => /\ proc'[q].pc = "exited"
               /\ proc'[q].status = 0
               /\ fs' = fs
               /\ \A r \in Pids \ {q} : proc'[r] = proc[r]]_vars
    /\ [](\A q \in Pids :
            (proc[q].pc = "stop_read" /\ AfterStop(q))
            => /\ PidFile(q) = Absent
               /\ \A w \in Workers : ~Alive(w))

C6_Witness ==
    \E p, q \in Pids, w \in Workers :
        /\ AfterStop(q)
        /\ p < q
        /\ \A r \in Invokers : r < q => r <= p
        /\ proc[p].err = "none"
        /\ proc[w].status = KilledBy(SIGTERM)
        /\ Exited(q)
        /\ proc[q].status = 0
        /\ proc[q].err = "not_running"
        /\ ThePidfile = Absent

\* C7: with commands issued one after another, at most one detached process
\* started through the pidfile is alive.
C7_Singleton == Cardinality({w \in Workers : Alive(w)}) <= 1

C7_Witness ==
    \E f \in Invokers, v, w \in Workers :
        /\ v < f
        /\ f < w
        /\ Exited(v)
        /\ proc[f].err = "already_running"
        /\ proc[w].pc = "running"
        /\ ThePidfile = w

\* The pidfile process p reads names a process that no longer exists.
Stale(p) == PidFile(p) \in Pids /\ ~Alive(PidFile(p))

\* C8: while the pidfile names a process that no longer exists, a start
\* fails and leaves the pidfile; a stop in that state gets "no such process"
\* from its first os.kill, having signalled nothing, and reaches a state where
\* it has returned with status 0 and the pidfile is removed; a start that
\* finds no pidfile goes on to the first fork.
\* (The stop is the latest command: a behaviour may issue no further one.)
C8_StaleRecovery ==
    /\ [][\A p \in Pids :
            (proc[p].pc = "start_read" /\ Moves(p))
            => /\ Stale(p) => /\ proc'[p].pc = "exited"
                              /\ proc'[p].status = 1
                              /\ fs' = fs
               /\ PidFile(p) = Absent => proc'[p].pc = "fork1"]_vars
    /\ [][\A p \in Pids :
            (/\ proc[p].pc = "stop_kill"
             /\ ~Alive(proc[p].target)
             /\ Moves(p))
            => /\ proc'[p].pc = "stop_check"
               /\ proc'[p].sent = proc[p].sent
               /\ NoSignal]_vars
    /\ (LatestAt("stop", "stop_read") /\ Stale(Latest))
       ~> (LatestDone("stop", 0) /\ ThePidfile = Absent)

C8_Witness ==
    \E f, s, n \in Invokers, w \in Workers :
        /\ w < f
        /\ proc[w].status = KilledBy(9)
        /\ f < s
        /\ proc[f].err = "already_running"
        /\ proc[s].cmd = "stop"
        /\ proc[s].status = 0
        /\ proc[s].err = "none"
        /\ s < n
        /\ proc[n].cmd = "start"
        /\ \E c \in Pids : Detached(n, c)

\* C9: when os.kill fails with an error other than "no such process" (the
\* process exists and belongs to another user), stop exits with status 1 in
\* that step and the pidfile stays.
C9_FatalSignalError ==
    [][\A p \in Pids :
          (/\ proc[p].pc = "stop_kill"
           /\ KillResult(p, proc[p].target) \notin {"ok", "ESRCH"}
           /\ Moves(p))
          => /\ proc'[p].pc = "exited"
             /\ proc'[p].status = 1
             /\ fs' = fs
             /\ NoSignal]_vars

C9_Witness ==
    \E p \in Pids, w \in Workers :
        /\ Exited(p)
        /\ proc[p].err = "EPERM"
        /\ proc[p].status = 1
        /\ ThePidfile = w
        /\ Alive(w)

ForkErrors == {"fork1_failed", "fork2_failed"}

\* A fork of the command failed, and nothing of the command detached: the
\* failing process has no child, and only a second child ever holds the
\* pidfile open, is recorded in it or runs the callback.
NothingDetached ==
    /\ \A p, q \in Pids : proc[p].err \in ForkErrors => proc[q].parent # p
    /\ \A q \in Pids :
          (\/ proc[q].ran
           \/ proc[q].atexit
           \/ proc[q].pc \in {"open_pidfile", "write_pidfile", "run", "running"}
           \/ \E d \in Dirs : fs[d] = q)
          => proc[q].role = "child2"

\* C10 as stated: whichever fork fails, the process the user ran ends with
\* status 1 (and nothing of the command detaches).
C10_InvokerSeesForkFailure ==
    /\ NothingDetached
    /\ \A p \in Pids :
          (proc[p].err \in ForkErrors /\ Exited(Invoker(p)))
          => proc[Invoker(p)].status = 1

\* C10, amended: the process in which a fork fails exits with status 1 in
\* that step, writing no pidfile, creating no process and starting no
\* callback, and nothing of the command detaches.  At the first fork that
\* process is the one the user ran; at the second fork it is the first child,
\* and the process the user ran, being the parent of the first fork, exits
\* with status 0.
C10_ForkFailure ==
    /\ [][\A p \in Pids :
            (proc[p].pc \in {"fork1", "fork2"} /\ proc'[p].err \in ForkErrors)
            => /\ proc'[p].pc = "exited"
               /\ proc'[p].status = 1
               /\ fs' = fs
               /\ NoFork
               /\ NoCallback]_vars
    /\ [](NothingDetached)
    /\ [](\A p \in Pids :
            /\ proc[p].err = "fork1_failed" => proc[p].role = "invoker"
            /\ proc[p].err = "fork2_failed"
               => /\ proc[p].role = "child1"
                  /\ proc[proc[p].parent].pc \in {"parent_exit", "exited"}
                  /\ Exited(proc[p].parent) => proc[proc[p].parent].status = 0)

C10_Witness ==
    \E p, c \in Pids :
        /\ proc[p].role = "invoker"
        /\ proc[p].err = "fork1_failed"
        /\ proc[p].status = 1
        /\ proc[c].role = "child1"
        /\ proc[c].err = "fork2_failed"
        /\ proc[c].status = 1
        /\ proc[proc[c].parent].status = 0
        /\ ThePidfile = Absent

\* ---------------------------------------------------------------------
\* C11: the test command invokes the worker callback synchronously in the
\* invoking process itself, without any fork, and never touches the
\* pidfile.
\*
\* This statement is violated: main() calls daemon.run() with no argument,
\* the callback of SoundCtlDaemon is run(self, args), so the call raises
\* TypeError before the callback's body begins and the process exits 1.
C11_TestRunsCallback ==
    [][\A p \in Pids :
         (proc[p].pc = "test_run" /\ Moves(p))
         => /\ proc'[p].ran
            /\ proc'[p].role = "invoker"
            /\ NoFork
            /\ fs' = fs]_vars

\* ---------------------------------------------------------------------
\* The statements of stop(), and those of start() run by the invoking process.
StopPcs == {"stop_read", "stop_kill", "stop_check", "stop_remove"}

StartPcs == {"start_read", "fork1", "parent_exit"}

\* C12: restart is stop run to completion, then start.  The process of a
\* restart enters start() only from a stop() that returned; a stop step
\* that ends the process does so with status 1 and start() is never
\* executed (nothing is forked, no callback runs); a stop step that finds
\* no pidfile changes nothing and goes on to start(), and from there a
\* restart behaves as a start: unless a fork fails, the invoker exits 0 and
\* a detached instance comes to be recorded in the pidfile.
C12_RestartIsStopThenStart ==
    /\ [][\A p \in Pids :
            (proc[p].cmd = "restart" /\ proc[p].role = "invoker" /\ Moves(p))
            => /\ proc'[p].pc = "start_read" => proc[p].pc \in StopPcs
               /\ proc'[p].pc \in StartPcs \ {"start_read"}
                  => proc[p].pc \in StartPcs
               /\ (proc[p].pc \in StopPcs /\ proc'[p].pc = "exited")
                  => /\ proc'[p].status = 1
                     /\ fs' = fs
                     /\ NoFork
                     /\ NoCallback
               /\ (proc[p].pc = "stop_read" /\ PidFile(p) = Absent)
                  => /\ proc'[p].pc = "start_read"
                     /\ fs' = fs
                     /\ NoFork
                     /\ NoSignal]_vars
    /\ [](\A p \in Pids :
            (/\ proc[p].cmd = "restart"
             /\ proc[p].role = "invoker"
             /\ proc[p].err \in {"EPERM", "ENOENT", "ValueError"})
            => /\ proc[p].status = 1
               /\ \A c \in Pids : proc[c].parent # p)
    /\ (LatestAt("restart", "stop_read") /\ ThePidfile = Absent)
       ~> (/\ Invokers # {}
           /\ \/ ForkFailed(Latest)
              \/ \E c \in Pids : Detached(Latest, c))
    /\ (LatestAt("restart", "stop_read") /\ ThePidfile = Absent)
       ~> (\/ LatestDone("restart", 0)
           \/ Invokers # {} /\ proc[Latest].err = "fork1_failed")

C12_Witness ==
    \E f, p, c \in Pids :
        /\ proc[f].cmd = "restart"
        /\ proc[f].role = "invoker"
        /\ proc[f].err = "EPERM"
        /\ proc[f].status = 1
        /\ proc[p].cmd = "restart"
        /\ proc[p].status = 0
        /\ Detached(p, c)
        /\ proc[c].err = "not_running"

\* ---------------------------------------------------------------------
\* C13: start's check of the pidfile and its write are not atomic.  Two
\* start commands running at once can both find no pidfile and both detach,
\* so that two workers run at the same time; each write replaces whatever the
\* pidfile held, another live worker's record included, and disturbs no other
\* process, so the pidfile holds only the pid of whichever wrote last.
C13_LastWriterWins ==
    [][\A w \in Pids :
         (proc[w].pc = "write_pidfile" /\ proc'[w].pc = "run")
         => /\ fs' = [fs EXCEPT ![Resolve(w)] = w]
            /\ \A v \in Pids \ {w} : proc'[v] = proc[v]]_vars

\* Two workers of two start commands run at once, each start having passed
\* its check; the pidfile names the one with the smaller pid, which wrote
\* last.
C13_Witness ==
    \E v, w \in Workers :
        /\ v < w
        /\ Invoker(v) # Invoker(w)
        /\ proc[v].cmd = "start"
        /\ proc[w].cmd = "start"
        /\ proc[v].pc = "running"
        /\ proc[w].pc = "running"
        /\ ThePidfile = v
        /\ proc[Invoker(v)].status = 0
        /\ proc[Invoker(w)].status = 0

\* ---------------------------------------------------------------------
\* The pidfile records a process that no longer exists.
Leftover == ThePidfile \in Pids /\ ~Alive(ThePidfile)

\* C14: with commands issued one after another, whenever no command is in
\* progress: a live worker is the one the pidfile records; a pidfile exists
\* only if it records a worker; and a pidfile that records a process no
\* longer alive is there only because that worker ended uncleanly (it was
\* killed without running its exit handlers), so that the pidfile is absent
\* when no instance was started and when the last instance was stopped by
\* stop or exited normally.
C14_PidfileInvariant ==
    Quiescent
    => /\ \A w \in Workers : Alive(w) => ThePidfile = w
       /\ ThePidfile # Absent => ThePidfile \in Workers
       /\ Leftover => proc[ThePidfile].status = KilledBy(9)
       /\ Workers = {} => ThePidfile = Absent

C14_Witness ==
    /\ Quiescent
    /\ \E v, w \in Workers :
         /\ proc[v].status = KilledBy(SIGTERM)
         /\ proc[w].pc = "running"
         /\ ThePidfile = w

\* ---------------------------------------------------------------------
\* C15: stop has no timeout.  Its process leaves the signalling loop only
\* by a signal delivery that fails; a delivery that succeeds leaves it in
\* the loop with the pidfile untouched, so while the target stays alive (and
\* may be signalled) stop neither returns nor removes the pidfile: a stop
\* past the loop has a target that no longer exists.
C15_StopNeverGivesUp ==
    /\ [][\A p \in Pids :
            proc[p].pc = "stop_kill"
            => /\ proc'[p].pc # "stop_kill"
                  => KillResult(p, proc[p].target) # "ok"
               /\ (Moves(p) /\ KillResult(p, proc[p].target) = "ok")
                  => /\ proc'[p].pc = "stop_kill"
                     /\ proc'[p].sent
                     /\ proc'[proc[p].target].pending
                     /\ fs' = fs]_vars
    /\ [](\A p \in Pids :
            proc[p].pc \in {"stop_check", "stop_remove"}
            => ~Alive(proc[p].target))

\* A stop has signalled a worker that ignores SIGTERM: the signal was taken
\* and ignored, the worker runs on, the pidfile is still there, and stop is
\* still in its loop.
C15_Witness ==
    \E p \in Pids, w \in Workers :
        /\ proc[p].pc = "stop_kill"
        /\ proc[p].sent
        /\ proc[p].target = w
        /\ proc[w].pc = "running"
        /\ proc[w].disp = "ignore"
        /\ ~proc[w].pending
        /\ ThePidfile = w

\* ---------------------------------------------------------------------
\* C16, as stated: in every execution of a successful start, the process
\* that invoked it has already exited with status 0 before the worker
\* callback begins to run.
\*
\* This statement is violated: nothing makes the detached process wait for
\* the exit of the invoker, so the callback can begin while the invoker is
\* still on its way to sys.exit(0).
C16_InvokerGoneBeforeCallback ==
    \A c \in Workers :
        proc[c].ran
        => /\ Exited(Invoker(c))
           /\ proc[Invoker(c)].status = 0

\* C16, amended: once the first fork of a start has succeeded, the invoking
\* process does nothing but exit with status 0: it is on its way to
\* sys.exit(0) or has exited with 0, whatever its descendants do, so its
\* exit status never depends on the callback's outcome; the callback runs
\* in a second-fork descendant, and may begin before the invoker has exited.
C16_InvokerStatusIndependent ==
    /\ [](\A q \in Pids :
            proc[q].role \in {"child1", "child2"}
            => /\ proc[Invoker(q)].pc \in {"parent_exit", "exited"}
               /\ Exited(Invoker(q)) => proc[Invoker(q)].status = 0)
    /\ [](\A q \in Pids : proc[q].ran => proc[q].role = "child2")
    /\ [][\A p \in Pids :
            (proc[p].pc = "parent_exit" /\ Moves(p))
            => /\ proc'[p].pc = "exited"
               /\ proc'[p].status = 0]_vars

\* The callback of a worker that was killed, and that of a worker still
\* running whose invoker has not exited yet, next to invokers that exited 0.
C16_Witness ==
    \E c, d \in Workers :
        /\ proc[c].status = KilledBy(9)
        /\ proc[Invoker(c)].status = 0
        /\ proc[d].pc = "running"
        /\ proc[Invoker(d)].pc = "parent_exit"

\* ---------------------------------------------------------------------
\* The worker started last.
LastWorker == CHOOSE w \in Workers : \A v \in Workers : v <= w

\* Process p takes its normal exit path in this step.
ExitsNormally(p) ==
    /\ proc[p].pc = "running"
    /\ proc'[p].pc = "exited"
    /\ proc'[p].status = 0

\* C17: the detached worker registers a cleanup before its callback runs,
\* so that the step in which it exits normally leaves no pidfile; with
\* commands issued one after another the pidfile stays absent after that
\* exit until a later start, which finds none and proceeds to detach.
C17_CleanupOnNormalExit ==
    /\ [](\A w \in Workers :
            proc[w].pc \in {"write_pidfile", "run", "running"} => proc[w].atexit)
    /\ [][\A w \in Workers : ExitsNormally(w) => fs'[Resolve(w)] = Absent]_vars
    /\ []((/\ Workers # {}
           /\ Exited(LastWorker)
           /\ proc[LastWorker].status = 0)
          => ThePidfile = Absent)
    /\ [][\A p \in Pids :
            (/\ proc[p].pc = "start_read"
             /\ Moves(p)
             /\ Workers # {}
             /\ Exited(LastWorker)
             /\ proc[LastWorker].status = 0)
            => proc'[p].pc = "fork1"]_vars

\* A worker ran and exited normally, and the start issued after that
\* detached a new worker.
C17_Witness ==
    \E w \in Workers, p, c \in Pids :
        /\ proc[w].status = 0
        /\ w < p
        /\ proc[p].cmd = "start"
        /\ Detached(p, c)

\* ---------------------------------------------------------------------
\* C18: the process that writes the pidfile and runs the callback is the
\* child of the second fork.  It is a member, not the leader, of the session
\* that its parent, the first child, created with setsid(); it is no child of
\* the process the user ran, which therefore never has to reap it; and its
\* parent does nothing after the second fork but exit with status 0, which
\* leaves the worker to be adopted by init.
C18_DoubleFork ==
    /\ [](\A w \in Workers :
            LET f == proc[w].parent
            IN  /\ proc[f].role = "child1"
                /\ proc[proc[f].parent].role = "invoker"
                /\ Invoker(w) = proc[f].parent
                /\ f # Invoker(w)
                /\ proc[f].pc \in {"parent_exit", "exited"}
                /\ Exited(f) => proc[f].status = 0
                /\ Alive(w) => /\ proc[w].sid = f
                               /\ proc[w].sid # w)
    /\ [](\A q \in Pids :
            (proc[q].ran \/ \E d \in Dirs : fs[d] = q \/ proc[q].atexit)
            => q \in Workers)

\* A worker runs its callback as a member of the session of its parent,
\* which has exited, as has the process the user ran.
C18_Witness ==
    \E w \in Workers :
        /\ proc[w].pc = "running"
        /\ proc[w].sid = proc[w].parent
        /\ proc[proc[w].parent].status = 0
        /\ Exited(proc[w].parent)
        /\ Exited(Invoker(w))
        /\ ThePidfile = w

\* ---------------------------------------------------------------------
\* C19: start takes the daemon for already running, and fails, exactly when
\* the pidfile exists and its content parses to an integer, whatever the
\* integer; it goes on to detach only when the pidfile is absent.
\*
\* This statement is violated: the test is `if pid:`, which the integer 0
\* fails, so a start that reads 0 goes on to detach.
C19_AlreadyRunningForEveryInteger ==
    [][\A p \in Pids :
         (proc[p].pc = "start_read" /\ Moves(p))
         => /\ (proc'[p].pc = "exited" /\ proc'[p].err = "already_running")
               <=> (PidFile(p) # Absent /\ ~ParseFails(PidFile(p)))
            /\ proc'[p].err = "already_running" => proc'[p].status = 1
            /\ proc'[p].pc = "fork1" => PidFile(p) = Absent]_vars

\* ---------------------------------------------------------------------
\* Worker w has written its record.
HasWritten(w) == proc[w].role = "child2" /\ proc[w].pc \in {"run", "running", "exited"}

\* Process p, run for a start or a restart, has exited with status 0 as the
\* parent of the first fork.
StartedOk(p) ==
    /\ proc[p].role = "invoker"
    /\ proc[p].cmd \in {"start", "restart"}
    /\ Exited(p)
    /\ proc[p].status = 0
    /\ \E c \in Pids : proc[c].parent = p

\* C20, as stated: when the process that invoked start exits with status 0,
\* the pidfile has already been written by the detached instance, so that a
\* start or stop issued after that exit always observes the pidfile.
\*
\* This statement is violated: the invoker exits as soon as the first fork
\* has succeeded, and the write comes two forks later in another process.
C20_WrittenBeforeInvokerExits ==
    \A p \in Pids :
        StartedOk(p) => \E w \in Workers : Invoker(w) = p /\ HasWritten(w)

\* C20, amended: the pidfile is written by the detached instance at some
\* point after the first fork, with no order between that write and the exit
\* of the invoker.  A worker that has written has an invoker that is past
\* the first fork, exited or not, and it is from the write on, while the
\* record stays, that a start is refused and a stop signals the new
\* instance.
C20_ObservedOnceWritten ==
    /\ [](\A w \in Workers :
            HasWritten(w)
            => proc[Invoker(w)].pc \in {"parent_exit", "exited"})
    /\ [][\A p \in Pids :
            (/\ proc[p].pc \in {"start_read", "stop_read"}
             /\ Moves(p)
             /\ PidFile(p) \in Workers)
            => /\ HasWritten(PidFile(p))
               /\ proc[p].pc = "start_read"
                  => /\ proc'[p].pc = "exited"
                     /\ proc'[p].err = "already_running"
               /\ proc[p].pc = "stop_read"
                  => /\ proc'[p].pc = "stop_kill"
                     /\ proc'[p].target = PidFile(p)]_vars

\* The invoker of a start has exited with status 0; a stop issued after the
\* first fork and before the write found no pidfile; a stop issued after
\* the write signals the new instance.
C20_Witness ==
    \E p, s, q \in Invokers, w \in Workers :
        /\ StartedOk(p)
        /\ Invoker(w) = p
        /\ proc[w].pc = "running"
        /\ proc[w].parent < s
        /\ s < w
        /\ proc[s].cmd = "stop"
        /\ proc[s].err = "not_running"
        /\ Exited(s)
        /\ w < q
        /\ proc[q].pc = "stop_kill"
        /\ proc[q].target = w

\* ---------------------------------------------------------------------
\* The pidfile of process p is removed in this step.
Removed(p) == PidFile(p) # Absent /\ fs'[Resolve(p)] = Absent

\* C21, as stated: a pidfile is only ever removed on behalf of the instance
\* whose pid it records: stop removes it only while it records the pid this
\* stop read and signalled, a worker's exit cleanup only while it records
\* that worker's own pid, and so no live worker is ever left running without
\* its pidfile.
\*
\* This statement is violated: neither removal looks at what the file
\* records, and under concurrent commands the file may by then record
\* another, live, instance.
C21_RemovedOnlyForOwner ==
    /\ [][\A p \in Pids :
            (proc[p].pc = "stop_remove" /\ Moves(p) /\ Removed(p))
            => PidFile(p) = proc[p].target]_vars
    /\ [][\A w \in Workers :
            (ExitsNormally(w) /\ Removed(w)) => PidFile(w) = w]_vars
    /\ [](\A w \in Workers : proc[w].pc = "running" => PidFile(w) # Absent)

\* C21, amended: a pidfile is removed only by a stop whose target no longer
\* exists, or by the exit handler of a worker that exits normally, and in
\* both cases whatever the file records at that moment: the removal does not
\* compare the content with the pid that the stop read or with the worker's
\* own pid.
C21_UnconditionalRemoval ==
    /\ [][(\E d \in Dirs : fs[d] # Absent /\ fs'[d] = Absent)
          => \E p \in Pids :
               /\ Moves(p)
               /\ Removed(p)
               /\ \/ /\ proc[p].pc = "stop_remove"
                     /\ ~Alive(proc[p].target)
                  \/ /\ p \in Workers
                     /\ proc[p].atexit
                     /\ proc'[p].pc = "exited"
                     /\ proc'[p].status = 0]_vars
    /\ [][\A p \in Pids :
            (Moves(p) /\ (proc[p].pc = "stop_remove"
                          \/ (ExitsNormally(p) /\ proc[p].atexit)))
            => fs'[Resolve(p)] = Absent]_vars

\* A worker runs with no pidfile, after the exit handler of another worker
\* has removed the file that recorded the one still running.
C21_Witness ==
    \E v, w \in Workers :
        /\ v # w
        /\ proc[v].status = 0
        /\ Exited(v)
        /\ proc[w].pc = "running"
        /\ ThePidfile = Absent

\* ---------------------------------------------------------------------
\* C22: when two stop commands run at once against a pidfile that names a
\* live process, both end normally with exit status 0 once the process is
\* gone, and the pidfile ends up removed; neither fails because the other
\* removed the pidfile between its existence check and its removal.
\*
\* This statement is violated: os.remove runs inside the handler of the
\* OSError of os.kill, where its own FileNotFoundError is caught by nothing,
\* so the stop that loses the race ends with a traceback and status 1.
C22_ConcurrentStopsSucceed ==
    [][\A p \in Pids :
         (/\ proc[p].cmd = "stop"
          /\ proc[p].sent
          /\ proc[p].pc \in {"stop_check", "stop_remove"}
          /\ Moves(p)
          /\ proc'[p].pc = "exited")
         => /\ proc'[p].status = 0
            /\ fs'[Resolve(p)] = Absent]_vars

\* ---------------------------------------------------------------------
\* The directory the commands are run from.
OriginalDir == Unborn.cwd

\* The directory of the file that the configured path names for a command
\* run from there.
AsInvoked == IF relative THEN OriginalDir ELSE "/tmp"

\* C23: for every configured pidfile path, a relative one included, the
\* file that start checks before detaching is the file that the detached
\* process, having changed to the root directory, writes and later removes,
\* and the file that a later stop run from the original directory reads: a
\* running worker is recorded in the file the commands look at.
\*
\* This statement is violated: a relative path is resolved again at every
\* use, and the detached process uses it after os.chdir('/').
C23_SameFileThroughout ==
    /\ [](\A p \in Pids :
            proc[p].pc \in {"start_read", "stop_read"} => Resolve(p) = AsInvoked)
    /\ [](\A w \in Workers : Alive(w) => Resolve(w) = AsInvoked)
    /\ [](\A w \in Workers : proc[w].pc \in {"run", "running"} => fs[AsInvoked] = w)

====
